---- MODULE Spec2Model ----
(***************************************************************************)
(* A model of mongoquery (src/mongoquery/__init__.py): the Query class,    *)
(* which evaluates a MongoDB-style condition against a Python document.    *)
(*                                                                         *)
(* Python values are modelled as tagged records; every record has the same *)
(* five fields so that any two values can be compared:                     *)
(*    t  the Python type: "none", "bool", "int", "float", "str", "list",   *)
(*       "dict"                                                            *)
(*    n  the numeric value of a bool (0/1), an int or a float (only        *)
(*       integral floats are modelled)                                     *)
(*    s  the characters of a str, a sequence of one-character strings      *)
(*    l  the items of a list                                               *)
(*    d  the items of a dict in insertion order, a sequence of <<key, v>>  *)
(*       pairs with distinct keys; a key is a sequence of characters       *)
(* The outcome of a call is a record [e, v]: e = "" and v the returned     *)
(* value, or e the name of the exception that propagated.                  *)
(* The interpreter modelled is CPython 3 (3.10 or later, where             *)
(* types.NoneType exists).  Strings are over characters that are neither   *)
(* whitespace nor one of  % * + ? { } [ ] ( ) | \ #  , and a string of      *)
(* digits holds no underscore.                                             *)
(***************************************************************************)
EXTENDS Integers, Sequences, FiniteSets

VARIABLES definition, entry, result

vars == <<definition, entry, result>>

(***************************************************************************)
(* Python values                                                           *)
(***************************************************************************)
V(t, n, s, l, d) == [t |-> t, n |-> n, s |-> s, l |-> l, d |-> d]

PyNone == V("none", 0, <<>>, <<>>, <<>>)

PyBool(b) == V("bool", IF b THEN 1 ELSE 0, <<>>, <<>>, <<>>)

PyInt(n) == V("int", n, <<>>, <<>>, <<>>)

PyFloat(n) == V("float", n, <<>>, <<>>, <<>>)

PyStr(s) == V("str", 0, s, <<>>, <<>>)

PyList(l) == V("list", 0, <<>>, l, <<>>)

PyDict(d) == V("dict", 0, <<>>, <<>>, d)

Ok(v) == [e |-> "", v |-> v]

Err(x) == [e |-> x, v |-> PyNone]

IsErr(r) == r.e # ""

\* isinstance(x, Number): bool is a subclass of int
IsNumber(x) == x.t \in {"bool", "int", "float"}

\* bool(x), the truth value all(), any() and `not` take
Truthy(x) ==
  CASE x.t = "none" -> FALSE
    [] x.t \in {"bool", "int", "float"} -> x.n # 0
    [] x.t = "str" -> Len(x.s) > 0
    [] x.t = "list" -> Len(x.l) > 0
    [] OTHER -> Len(x.d) > 0

Keys(x) == {x.d[i][1] : i \in 1..Len(x.d)}

\* x[k] for a dict x that holds key k
Lookup(x, k) == x.d[CHOOSE i \in 1..Len(x.d) : x.d[i][1] = k][2]

\* a == b
RECURSIVE PyEq(_, _)
PyEq(a, b) ==
  IF IsNumber(a) /\ IsNumber(b) THEN a.n = b.n
  ELSE IF a.t # b.t THEN FALSE
  ELSE CASE a.t = "none" -> TRUE
         [] a.t = "str" -> a.s = b.s
         [] a.t = "list" ->
              /\ Len(a.l) = Len(b.l)
              /\ \A i \in 1..Len(a.l) : PyEq(a.l[i], b.l[i])
         [] OTHER ->
              /\ Len(a.d) = Len(b.d)
              /\ \A i \in 1..Len(a.d) :
                   \E j \in 1..Len(b.d) :
                     a.d[i][1] = b.d[j][1] /\ PyEq(a.d[i][2], b.d[j][2])

\* str.__contains__: sub is a substring of s
IsSubstring(sub, s) ==
  \E k \in 0..(Len(s) - Len(sub)) :
    \A i \in 1..Len(sub) : s[k + i] = sub[i]

\* x in c
PyContains(c, x) ==
  CASE c.t = "list" -> Ok(PyBool(\E i \in 1..Len(c.l) : PyEq(c.l[i], x)))
    [] c.t = "dict" ->
         IF x.t \in {"list", "dict"} THEN Err("TypeError")
         ELSE Ok(PyBool(x.t = "str" /\ x.s \in Keys(c)))
    [] c.t = "str" ->
         IF x.t # "str" THEN Err("TypeError")
         ELSE Ok(PyBool(IsSubstring(x.s, c.s)))
    [] OTHER -> Err("TypeError")

\* the values `for item in x` yields
PyIter(x) ==
  CASE x.t = "list" -> Ok(x)
    [] x.t = "str" -> Ok(PyList([i \in 1..Len(x.s) |-> PyStr(<<x.s[i]>>)]))
    [] x.t = "dict" -> Ok(PyList([i \in 1..Len(x.d) |-> PyStr(x.d[i][1])]))
    [] OTHER -> Err("TypeError")

\* x[i] for an int i (0-based, negative counts from the end)
PyIndex(x, i) ==
  CASE x.t = "list" ->
         IF i >= 0 /\ i < Len(x.l) THEN Ok(x.l[i + 1])
         ELSE IF i < 0 /\ -i <= Len(x.l) THEN Ok(x.l[Len(x.l) + i + 1])
         ELSE Err("IndexError")
    [] x.t = "str" ->
         IF i >= 0 /\ i < Len(x.s) THEN Ok(PyStr(<<x.s[i + 1]>>))
         ELSE IF i < 0 /\ -i <= Len(x.s) THEN Ok(PyStr(<<x.s[Len(x.s) + i + 1]>>))
         ELSE Err("IndexError")
    [] x.t = "dict" -> Err("KeyError")
    [] OTHER -> Err("TypeError")

\* x[1:]
PySlice1(x) ==
  CASE x.t = "list" -> Ok(PyList(IF Len(x.l) = 0 THEN <<>> ELSE Tail(x.l)))
    [] x.t = "str" -> Ok(PyStr(IF Len(x.s) = 0 THEN <<>> ELSE Tail(x.s)))
    [] OTHER -> Err("TypeError")

Digits == <<"0", "1", "2", "3", "4", "5", "6", "7", "8", "9">>

IsDigit(c) == \E k \in 1..10 : Digits[k] = c

DigitVal(c) == (CHOOSE k \in 1..10 : Digits[k] = c) - 1

RECURSIVE DecimalVal(_)
DecimalVal(s) ==
  IF Len(s) = 0 THEN 0
  ELSE DecimalVal(SubSeq(s, 1, Len(s) - 1)) * 10 + DigitVal(s[Len(s)])

\* int(x)
PyIntOf(x) ==
  CASE IsNumber(x) -> Ok(PyInt(x.n))
    [] x.t = "str" ->
         LET signed == Len(x.s) > 0 /\ x.s[1] \in {"+", "-"}
             body == IF signed THEN Tail(x.s) ELSE x.s
         IN  IF Len(body) > 0 /\ \A i \in 1..Len(body) : IsDigit(body[i])
             THEN Ok(PyInt(IF signed /\ x.s[1] = "-"
                           THEN -DecimalVal(body) ELSE DecimalVal(body)))
             ELSE Err("ValueError")
    [] OTHER -> Err("TypeError")

\* s.split(sep) for a one-character separator, as a Python list of str
RECURSIVE SplitFrom(_, _, _)
SplitFrom(s, sep, cur) ==
  IF Len(s) = 0 THEN <<PyStr(cur)>>
  ELSE IF s[1] = sep THEN <<PyStr(cur)>> \o SplitFrom(Tail(s), sep, <<>>)
  ELSE SplitFrom(Tail(s), sep, Append(cur, s[1]))

PySplit(s, sep) == PyList(SplitFrom(s, sep, <<>>))

\* all(rs) over a generator: stops at the first falsy item or exception
AllR(rs) ==
  LET stop == {i \in 1..Len(rs) : IsErr(rs[i]) \/ ~Truthy(rs[i].v)}
  IN  IF stop = {} THEN Ok(PyBool(TRUE))
      ELSE LET i == CHOOSE k \in stop : \A m \in stop : k <= m
           IN  IF IsErr(rs[i]) THEN rs[i] ELSE Ok(PyBool(FALSE))

\* any(rs) over a generator: stops at the first truthy item or exception
AnyR(rs) ==
  LET stop == {i \in 1..Len(rs) : IsErr(rs[i]) \/ Truthy(rs[i].v)}
  IN  IF stop = {} THEN Ok(PyBool(FALSE))
      ELSE LET i == CHOOSE k \in stop : \A m \in stop : k <= m
           IN  IF IsErr(rs[i]) THEN rs[i] ELSE Ok(PyBool(TRUE))

\* not r
NotR(r) == IF IsErr(r) THEN r ELSE Ok(PyBool(~Truthy(r.v)))

\* [f(x) for x in xs]: the first exception propagates
ListR(rs) ==
  LET bad == {i \in 1..Len(rs) : IsErr(rs[i])}
  IN  IF bad = {} THEN Ok(PyList([i \in 1..Len(rs) |-> rs[i].v]))
      ELSE rs[CHOOSE k \in bad : \A m \in bad : k <= m]

(***************************************************************************)
(* Query._extract                                                          *)
(***************************************************************************)
RECURSIVE _extract(_, _)
_extract(en, path) ==
  IF ~Truthy(path) THEN Ok(en)
  ELSE IF en.t = "none" THEN Ok(en)
  ELSE
    LET head == PyIndex(path, 0)
        rest == PySlice1(path)
    IN  IF IsErr(head) THEN head
        ELSE IF en.t = "list" THEN
          LET index == PyIntOf(head.v)
          IN  IF index.e = "ValueError"
              THEN ListR([i \in 1..Len(en.l) |-> _extract(en.l[i], path)])
              ELSE IF IsErr(index) THEN index
              ELSE LET item == PyIndex(en, index.v.n)
                   IN  IF IsErr(item) THEN item
                       ELSE _extract(item.v, rest.v)
        ELSE
          LET found == PyContains(en, head.v)
          IN  IF IsErr(found) THEN found
              ELSE IF Truthy(found.v)
              THEN IF en.t = "dict"
                   THEN _extract(Lookup(en, head.v.s), rest.v)
                   ELSE Err("TypeError")
              ELSE Ok(en)

(***************************************************************************)
(* The attributes getattr(self, "_" + name) finds on a Query: the operator *)
(* methods, the helper methods and the instance attribute _definition.     *)
(* (The attributes inherited from object, "_" + name = "__init__" and the  *)
(* like, are not modelled.)                                                *)
(***************************************************************************)
Attributes ==
  { <<"gt", <<"g", "t">> >>, <<"gte", <<"g", "t", "e">> >>,
    <<"lt", <<"l", "t">> >>, <<"lte", <<"l", "t", "e">> >>,
    <<"in", <<"i", "n">> >>, <<"nin", <<"n", "i", "n">> >>,
    <<"ne", <<"n", "e">> >>,
    <<"and", <<"a", "n", "d">> >>, <<"or", <<"o", "r">> >>,
    <<"nor", <<"n", "o", "r">> >>, <<"not", <<"n", "o", "t">> >>,
    <<"exists", <<"e", "x", "i", "s", "t", "s">> >>,
    <<"type", <<"t", "y", "p", "e">> >>,
    <<"mod", <<"m", "o", "d">> >>,
    <<"regex", <<"r", "e", "g", "e", "x">> >>,
    <<"options", <<"o", "p", "t", "i", "o", "n", "s">> >>,
    <<"text", <<"t", "e", "x", "t">> >>,
    <<"where", <<"w", "h", "e", "r", "e">> >>,
    <<"all", <<"a", "l", "l">> >>,
    <<"elemMatch", <<"e", "l", "e", "m", "M", "a", "t", "c", "h">> >>,
    <<"size", <<"s", "i", "z", "e">> >>,
    <<"comment", <<"c", "o", "m", "m", "e", "n", "t">> >>,
    <<"match", <<"m", "a", "t", "c", "h">> >>,
    <<"extract", <<"e", "x", "t", "r", "a", "c", "t">> >>,
    <<"process_condition", <<"p", "r", "o", "c", "e", "s", "s", "_",
                              "c", "o", "n", "d", "i", "t", "i", "o", "n">> >>,
    <<"not_implemented", <<"n", "o", "t", "_", "i", "m", "p", "l", "e", "m",
                            "e", "n", "t", "e", "d">> >>,
    <<"noop", <<"n", "o", "o", "p">> >>,
    <<"is_array_op", <<"i", "s", "_", "a", "r", "r", "a", "y", "_",
                        "o", "p">> >> ,
    <<"definition", <<"d", "e", "f", "i", "n", "i", "t", "i", "o", "n">> >> }

\* the characters of an attribute name
Chars(name) == (CHOOSE a \in Attributes : a[1] = name)[2]

HasAttr(cs) == \E a \in Attributes : a[2] = cs

AttrName(cs) == (CHOOSE a \in Attributes : a[2] = cs)[1]

\* "$" + name, a condition key
OpKey(name) == <<"$">> \o Chars(name)

\* Query._is_array_op
_is_array_op(op) == op \in {OpKey("all"), OpKey("elemMatch"), OpKey("size")}

\* Query._not_implemented
_not_implemented == Err("NotImplementedError")

\* Query._noop
_noop == Ok(PyBool(TRUE))

UnsupportedOperator == "QueryError: operator isn't supported"

IncorrectArgument == "QueryError: has been attributed incorrect argument"

UnknownType == "QueryError: $type has been used with unknown type"

BadRegex == "QueryError: not a regular expression"

IsQueryError(r) ==
  r.e \in {UnsupportedOperator, IncorrectArgument, UnknownType, BadRegex}

(***************************************************************************)
(* Comparison operators                                                    *)
(***************************************************************************)
\* isinstance(entry, Number) and entry <rel> condition
Compare(rel, condition, en) ==
  IF ~IsNumber(en) THEN Ok(PyBool(FALSE))
  ELSE IF ~IsNumber(condition) THEN Err("TypeError")
  ELSE Ok(PyBool(CASE rel = "gt" -> en.n > condition.n
                   [] rel = "gte" -> en.n >= condition.n
                   [] rel = "lt" -> en.n < condition.n
                   [] OTHER -> en.n <= condition.n))

_gt(condition, en) == Compare("gt", condition, en)

_gte(condition, en) == Compare("gte", condition, en)

_in(condition, en) == PyContains(condition, en)

_lt(condition, en) == Compare("lt", condition, en)

_lte(condition, en) == Compare("lte", condition, en)

_ne(condition, en) == Ok(PyBool(~PyEq(en, condition)))

_nin(condition, en) == NotR(PyContains(condition, en))

(***************************************************************************)
(* Element operators                                                       *)
(***************************************************************************)
\* the bson_type table of Query._type: type code -> Python type
BsonCodes == {1, 2, 3, 4, 5, 7, 8, 9, 10, 11, 13, 15, 16, 17, 18}

BsonType(code) ==
  CASE code = 1 -> "float"
    [] code = 3 -> "dict"
    [] code = 4 -> "list"
    [] code = 5 -> "bytearray"
    [] code = 8 -> "bool"
    [] code = 10 -> "none"
    [] code \in {16, 17, 18} -> "int"
    [] OTHER -> "str"

_type(condition, en) ==
  IF condition.t \in {"list", "dict"} THEN Err("TypeError")
  ELSE IF ~(IsNumber(condition) /\ condition.n \in BsonCodes)
  THEN Err(UnknownType)
  ELSE Ok(PyBool(en.t = BsonType(condition.n)))

(***************************************************************************)
(* Evaluation operators                                                    *)
(***************************************************************************)
\* a % b on integers, the result taking the sign of b
IntMod(a, b) == IF b > 0 THEN a % b ELSE -((-a) % (-b))

\* a % b
PyModulo(a, b) ==
  IF IsNumber(a) THEN
    IF ~IsNumber(b) THEN Err("TypeError")
    ELSE IF b.n = 0 THEN Err("ZeroDivisionError")
    ELSE IF a.t = "float" \/ b.t = "float"
    THEN Ok(PyFloat(IntMod(a.n, b.n)))
    ELSE Ok(PyInt(IntMod(a.n, b.n)))
  ELSE IF a.t = "str" THEN
    \* string formatting of a format without conversion specifiers
    IF b.t \in {"list", "dict"} THEN Ok(a) ELSE Err("TypeError")
  ELSE Err("TypeError")

_mod(condition, en) ==
  LET divisor == PyIndex(condition, 0)
  IN  IF IsErr(divisor) THEN divisor
      ELSE LET m == PyModulo(en, divisor.v)
           IN  IF IsErr(m) THEN m
               ELSE LET remainder == PyIndex(condition, 1)
                    IN  IF IsErr(remainder) THEN remainder
                        ELSE Ok(PyBool(PyEq(m.v, remainder.v)))

RegexFlags == {"i", "m", "s", "x"}

\* the positions j of a "/" that can close the literal /pattern/flags
RegexCloses(s) ==
  {j \in 3..Len(s) :
     /\ s[j] = "/"
     /\ Len(s) - j <= 4
     /\ \A k \in (j + 1)..Len(s) : s[k] \in RegexFlags}

UpperCase == <<"A", "B", "C", "D", "E", "F", "G", "H", "I", "J", "K", "L", "M",
               "N", "O", "P", "Q", "R", "S", "T", "U", "V", "W", "X", "Y", "Z">>

LowerCase == <<"a", "b", "c", "d", "e", "f", "g", "h", "i", "j", "k", "l", "m",
               "n", "o", "p", "q", "r", "s", "t", "u", "v", "w", "x", "y", "z">>

Lower(c) ==
  IF \E k \in 1..26 : UpperCase[k] = c
  THEN LowerCase[CHOOSE k \in 1..26 : UpperCase[k] = c]
  ELSE c

\* the pattern p, from its i-th character, matches text at offset pos
RECURSIVE MatchFrom(_, _, _, _, _)
MatchFrom(p, i, text, pos, ignorecase) ==
  IF i > Len(p) THEN TRUE
  ELSE CASE p[i] = "^" -> pos = 0 /\ MatchFrom(p, i + 1, text, pos, ignorecase)
         [] p[i] = "$" ->
              pos = Len(text) /\ MatchFrom(p, i + 1, text, pos, ignorecase)
         [] p[i] = "." ->
              pos < Len(text) /\ MatchFrom(p, i + 1, text, pos + 1, ignorecase)
         [] OTHER ->
              /\ pos < Len(text)
              /\ IF ignorecase THEN Lower(text[pos + 1]) = Lower(p[i])
                 ELSE text[pos + 1] = p[i]
              /\ MatchFrom(p, i + 1, text, pos + 1, ignorecase)

\* bool(re.search(p, text, flags)) for a pattern of literal characters,
\* ".", "^" and "$"
ReSearch(p, text, ignorecase) ==
  \E start \in 0..Len(text) : MatchFrom(p, 1, text, start, ignorecase)

_regex(condition, en) ==
  IF en.t # "str" THEN Ok(PyBool(FALSE))
  ELSE IF condition.t # "str" THEN Err(BadRegex)
  ELSE LET s == condition.s
           closes == RegexCloses(s)
       IN  IF Len(s) = 0 \/ s[1] # "/" \/ closes = {} THEN Err(BadRegex)
           ELSE LET j == CHOOSE k \in closes : \A m \in closes : m <= k
                    options == SubSeq(s, j + 1, Len(s))
                    ignorecase == \E k \in 1..Len(options) : options[k] = "i"
                IN  Ok(PyBool(ReSearch(SubSeq(s, 2, j - 1), en.s, ignorecase)))

(***************************************************************************)
(* Array operator $size                                                    *)
(***************************************************************************)
_size(condition, en) ==
  IF condition.t # "int" THEN Err(IncorrectArgument)
  ELSE IF en.t = "list" THEN Ok(PyBool(Len(en.l) = condition.n))
  ELSE Ok(PyBool(FALSE))

(***************************************************************************)
(* The condition matcher and the operators that call back into it          *)
(***************************************************************************)
RECURSIVE _match(_, _), _process_condition(_, _, _), CallAttr(_, _, _)
RECURSIVE _and(_, _), _nor(_, _), _not(_, _), _or(_, _), _all(_, _)
RECURSIVE _elemMatch(_, _)

\* Query._match comparing a sequence entry by equality, as it does any other
_match_by_equality(condition, en) ==
  IF condition.t = "dict"
  THEN AllR([i \in 1..Len(condition.d) |->
               _process_condition(condition.d[i][1], condition.d[i][2], en)])
  ELSE Ok(PyBool(PyEq(condition, en)))

\* Query._match
_match(condition, en) ==
  IF condition.t = "dict"
  THEN AllR([i \in 1..Len(condition.d) |->
               _process_condition(condition.d[i][1], condition.d[i][2], en)])
  ELSE IF en.t = "list" THEN PyContains(en, condition)
  ELSE Ok(PyBool(PyEq(condition, en)))

\* Query._process_condition; operator is the characters of the key
_process_condition(operator, condition, en) ==
  IF Len(operator) > 0 /\ operator[1] = "$"
  THEN IF ~HasAttr(Tail(operator)) THEN Err(UnsupportedOperator)
       ELSE LET op == AttrName(Tail(operator))
                r == IF en.t = "list" /\ ~_is_array_op(operator)
                     THEN AnyR([i \in 1..Len(en.l) |->
                                  CallAttr(op, condition, en.l[i])])
                     ELSE CallAttr(op, condition, en)
            IN  IF r.e = "AttributeError" THEN Err(UnsupportedOperator) ELSE r
  ELSE LET present == PyContains(en, PyStr(operator))
           extracted_data == _extract(en, PySplit(operator, "."))
       IN  IF condition.t = "dict" /\ OpKey("exists") \in Keys(condition)
           THEN IF IsErr(present) THEN present
                ELSE IF ~PyEq(Lookup(condition, OpKey("exists")), present.v)
                THEN Ok(PyBool(FALSE))
                ELSE IF IsErr(extracted_data) THEN extracted_data
                ELSE _match(condition, extracted_data.v)
           ELSE IF IsErr(extracted_data) THEN extracted_data
           ELSE _match(condition, extracted_data.v)

\* op(condition, entry) for op = getattr(self, "_" + name)
CallAttr(op, condition, en) ==
  CASE op = "gt" -> _gt(condition, en)
    [] op = "gte" -> _gte(condition, en)
    [] op = "in" -> _in(condition, en)
    [] op = "lt" -> _lt(condition, en)
    [] op = "lte" -> _lte(condition, en)
    [] op = "ne" -> _ne(condition, en)
    [] op = "nin" -> _nin(condition, en)
    [] op = "and" -> _and(condition, en)
    [] op = "nor" -> _nor(condition, en)
    [] op = "not" -> _not(condition, en)
    [] op = "or" -> _or(condition, en)
    [] op = "type" -> _type(condition, en)
    [] op \in {"exists", "comment", "noop"} -> _noop
    [] op = "mod" -> _mod(condition, en)
    [] op = "regex" -> _regex(condition, en)
    [] op \in {"options", "text", "where", "not_implemented"} ->
         _not_implemented
    [] op = "all" -> _all(condition, en)
    [] op = "elemMatch" -> _elemMatch(condition, en)
    [] op = "size" -> _size(condition, en)
    [] op = "match" -> _match(condition, en)
    [] op = "extract" -> _extract(condition, en)
    \* _process_condition lacks an argument, _is_array_op has one too many,
    \* _definition is not callable
    [] OTHER -> Err("TypeError")

\* Query._and
_and(condition, en) ==
  IF condition.t = "list"
  THEN AllR([i \in 1..Len(condition.l) |-> _match(condition.l[i], en)])
  ELSE Err(IncorrectArgument)

\* Query._nor
_nor(condition, en) ==
  IF condition.t = "list"
  THEN AllR([i \in 1..Len(condition.l) |-> NotR(_match(condition.l[i], en))])
  ELSE Err(IncorrectArgument)

\* Query._not
_not(condition, en) == NotR(_match(condition, en))

\* Query._or
_or(condition, en) ==
  IF condition.t = "list"
  THEN AnyR([i \in 1..Len(condition.l) |-> _match(condition.l[i], en)])
  ELSE Err(IncorrectArgument)

\* Query._all
_all(condition, en) ==
  LET items == PyIter(condition)
  IN  IF IsErr(items) THEN items
      ELSE AllR([i \in 1..Len(items.v.l) |-> _match(items.v.l[i], en)])

\* Query._elemMatch
_elemMatch(condition, en) ==
  LET elements == PyIter(en)
  IN  IF IsErr(elements) THEN elements
      ELSE AnyR([i \in 1..Len(elements.v.l) |->
                   IF condition.t # "dict" THEN Err("AttributeError")
                   ELSE AllR([j \in 1..Len(condition.d) |->
                                _process_condition(condition.d[j][1],
                                                   condition.d[j][2],
                                                   elements.v.l[i])])])

(***************************************************************************)
(* The Query object: __init__ stores the definition; match evaluates it    *)
(***************************************************************************)
\* the result before match has been called
Pending == [e |-> "pending", v |-> PyNone]

\* Query.match
match(doc) ==
  /\ entry' = doc
  /\ result' = _match(definition, doc)
  /\ UNCHANGED definition

(***************************************************************************)
(* Bounded sets of conditions and documents                                *)
(***************************************************************************)
\* the number of nodes (scalars, lists, dicts) of the values Query is built on
MaxSize == 4

\* the number of nodes of a document handed to match
MaxDocSize == 3

\* the length of a sequence of sub-conditions, candidates or elements
MaxLen == 2

SeqsUpTo(S, n) == UNION {[1..k -> S] : k \in 0..n}

\* the values of exactly n nodes over the scalars S and the dict keys K
RECURSIVE Sized(_, _, _), Forest(_, _, _), KeyedForest(_, _, _, _)
Sized(S, K, n) ==
  IF n <= 0 THEN {}
  ELSE (IF n = 1 THEN S ELSE {})
         \cup {PyList(f) : f \in Forest(S, K, n - 1)}
         \cup {PyDict(f) : f \in KeyedForest(S, K, K, n - 1)}

Forest(S, K, n) ==
  IF n = 0 THEN {<<>>}
  ELSE UNION {{<<v>> \o f : v \in Sized(S, K, k), f \in Forest(S, K, n - k)} :
                k \in 1..n}

KeyedForest(S, K, avail, n) ==
  IF n = 0 THEN {<<>>}
  ELSE UNION {UNION {{<< <<key, v>> >> \o f :
                        v \in Sized(S, K, k),
                        f \in KeyedForest(S, K, avail \ {key}, n - k)} :
                       key \in avail} : k \in 1..n}

UpTo(S, K, n) == UNION {Sized(S, K, k) : k \in 1..n}

Ka == <<"a">>

Kb == <<"b">>

Kc == <<"c">>

Kx == <<"x">>

Ky == <<"y">>

K0 == <<"0">>

Kab == <<"a", ".", "b">>

Kabc == <<"a", ".", "b", ".", "c">>

StrX == PyStr(<<"x">>)

\* {k: v}
Field(k, v) == PyDict(<< <<k, v>> >>)

\* {k1: v1, k2: v2}
Field2(k1, v1, k2, v2) == PyDict(<< <<k1, v1>>, <<k2, v2>> >>)

\* {"$name": arg}
Op(name, arg) == Field(OpKey(name), arg)

\* the single key of a one-key dict, and its value
Key1(x) == x.d[1][1]

Val1(x) == x.d[1][2]

\* the outcome of a call that returned the boolean b
Returned(b) == Ok(PyBool(b))

\* documents of any shape: null, boolean, number, string, sequence, mapping
Documents == UpTo({PyNone, PyBool(TRUE), PyInt(1), StrX}, {Ka, Kb}, MaxDocSize)

MappingDocuments == {d \in Documents : d.t = "dict"}

\* the operator names of the Operator Table
TableOperators ==
  {"gt", "gte", "lt", "lte", "in", "nin", "ne", "and", "or", "nor", "not",
   "exists", "type", "mod", "regex", "options", "text", "where", "all",
   "elemMatch", "size", "comment"}

IsTableOperator(cs) == HasAttr(cs) /\ AttrName(cs) \in TableOperators

Called == result # Pending

InitOn(definitions) ==
  /\ definition \in definitions
  /\ entry = PyNone
  /\ result = Pending

(***************************************************************************)
(* C10: a document against the query made of its own field                 *)
(***************************************************************************)
ValuesC10 == UpTo({PyNone, PyInt(1)}, {Kx, K0}, MaxSize)

DefinitionsC10 == {Field(Ka, v) : v \in ValuesC10}

InitC10 == InitOn(DefinitionsC10)

\* x with the items of every dict in the opposite order, an equal value
RECURSIVE Mirror(_)
Mirror(x) ==
  CASE x.t = "list" -> PyList([i \in 1..Len(x.l) |-> Mirror(x.l[i])])
    [] x.t = "dict" ->
         PyDict([i \in 1..Len(x.d) |->
                   <<x.d[Len(x.d) + 1 - i][1], Mirror(x.d[Len(x.d) + 1 - i][2])>>])
    [] OTHER -> x

\* the document {k: v} of the definition {k: v}, as written or mirrored
NextC10 == \E doc \in {definition, Mirror(definition)} : match(doc)

SpecC10 == InitC10 /\ [][NextC10]_vars

\* v is a sequence or holds one
RECURSIVE HasSequence(_)
HasSequence(v) ==
  \/ v.t = "list"
  \/ v.t = "dict" /\ \E i \in 1..Len(v.d) : HasSequence(v.d[i][2])

\* C10 as stated: for every plain key k and every value v built from scalars,
\* sequences and mappings with plain keys, Query({k: v}).match({k: v}) is
\* true.
C10_OwnFieldMatches == Called => result = Returned(TRUE)

\* C10 as amended: Query({k: v}).match({k: v}) is true when v is built from
\* scalars and mappings with plain keys only, and false when v is a sequence
\* or a mapping that holds a sequence.
C10_OwnFieldMatchesUnlessSequence ==
  Called => result = Ok(PyBool(~HasSequence(Val1(definition))))

\* a mapping v that nests a mapping has been matched against itself
C10_NestedMappingMatched ==
  /\ Called
  /\ Val1(definition).t = "dict"
  /\ \E i \in 1..Len(Val1(definition).d) :
       /\ Val1(definition).d[i][2].t = "dict"
       /\ Len(Val1(definition).d[i][2].d) > 0
  /\ result = Returned(TRUE)

(***************************************************************************)
(* C1: match fails only on malformed conditions                            *)
(***************************************************************************)
\* well-formed conditions: plain keys, dotted paths, and every operator of
\* the table that is implemented, with an argument of the documented shape
WellFormedConditions ==
  {Field(Ka, PyInt(1)), Field(Ka, StrX), Field(Kab, PyInt(1)),
   Field(Ka, Field(Kb, PyInt(1))),
   Field(Ka, Op("gt", PyInt(1))), Field(Ka, Op("gte", PyInt(1))),
   Field(Ka, Op("lt", PyInt(1))), Field(Ka, Op("lte", PyInt(1))),
   Field(Kab, Op("gt", PyInt(0))),
   Field(Ka, Op("in", PyList(<<PyInt(1), StrX>>))),
   Field(Ka, Op("nin", PyList(<<PyInt(1), StrX>>))),
   Field(Ka, Op("ne", PyInt(1))),
   Op("and", PyList(<<Field(Ka, PyInt(1)), Field(Kb, PyInt(1))>>)),
   Op("or", PyList(<<Field(Ka, PyInt(1)), Field(Kb, PyInt(1))>>)),
   Op("nor", PyList(<<Field(Ka, PyInt(1)), Field(Kb, PyInt(1))>>)),
   Field(Ka, Op("not", Op("gt", PyInt(1)))),
   Field(Ka, Op("exists", PyBool(TRUE))),
   Field(Ka, Op("exists", PyBool(FALSE))),
   Field(Ka, Op("type", PyInt(16))),
   Field(Ka, Op("mod", PyList(<<PyInt(2), PyInt(1)>>))),
   Field(Ka, Op("regex", PyStr(<<"/", "^", "x", "/", "i">>))),
   Field(Ka, Op("all", PyList(<<PyInt(1), StrX>>))),
   Field(Ka, Op("elemMatch", Op("gt", PyInt(0)))),
   Field(Ka, Op("size", PyInt(1))),
   Field(Ka, Op("comment", StrX)),
   Op("gt", PyInt(0)), Op("size", PyInt(1)), Op("comment", StrX)}

InitC1 == InitOn(WellFormedConditions)

NextC1 == \E doc \in Documents : match(doc)

SpecC1 == InitC1 /\ [][NextC1]_vars

\* C1: for every well-formed condition and every document value of any shape,
\* match returns a boolean and raises no error.
C1_MatchNeverFailsOnDocuments ==
  Called => ~IsErr(result) /\ result.v.t = "bool"

(***************************************************************************)
(* C2: operator names outside the Operator Table                           *)
(***************************************************************************)
\* names after the "$" that the Operator Table does not hold
NamesOffTable ==
  {<<"b", "o", "g", "u", "s">>, <<>>, <<"G", "t">>, <<"g", "t", "x">>,
   Chars("noop"), Chars("match"), Chars("extract"), Chars("not_implemented"),
   Chars("process_condition"), Chars("is_array_op"), Chars("definition")}

ConditionsC2 ==
  {Field(<<"$">> \o name, arg) :
     name \in NamesOffTable, arg \in {PyInt(1), PyList(<<PyInt(1)>>)}}

DefinitionsC2 == ConditionsC2 \cup {Field(Ka, c) : c \in ConditionsC2}

InitC2 == InitOn(DefinitionsC2)

NextC2 == \E doc \in Documents : match(doc)

SpecC2 == InitC2 /\ [][NextC2]_vars

\* the definition is {"$name": arg}, or {"a": {"$name": arg}} matched against
\* a mapping: the key "$name" is dispatched
DispatchedKey ==
  IF Key1(definition)[1] = "$" THEN Key1(definition)
  ELSE Key1(Val1(definition))

Dispatches ==
  /\ Called
  /\ Key1(definition)[1] = "$" \/ entry.t = "dict"

\* C2: whenever a condition key that starts with "$" and whose name is not an
\* operator of the table is dispatched, match fails with the "unsupported
\* operator" QueryError, for every entry value and every such name.
C2_OffTableNameIsUnsupported ==
  (Dispatches /\ ~IsTableOperator(Tail(DispatchedKey)))
    => result.e = UnsupportedOperator

(***************************************************************************)
(* C3: array fan-out on field paths                                        *)
(***************************************************************************)
LeavesC3 == {PyInt(1), PyInt(2)}

CMappings == {Field(Kc, PyInt(1))}

BValues ==
  LeavesC3 \cup CMappings
    \cup {PyList(l) : l \in SeqsUpTo(LeavesC3 \cup CMappings, MaxLen)}

BMappings == {Field(Kb, x) : x \in BValues}

AValues ==
  LeavesC3 \cup BMappings \cup {PyList(l) : l \in SeqsUpTo(BMappings, MaxLen)}

DocumentsC3 == {Field(Ka, x) : x \in AValues}

DefinitionsC3 == {Field(p, c) : p \in {Ka, Kab, Kabc}, c \in LeavesC3}

\* the segments of the path of {p: c}
Segments(def) ==
  LET parts == PySplit(Key1(def), ".").l
  IN  [i \in 1..Len(parts) |-> parts[i].s]

InitC3 == InitOn(DefinitionsC3)

\* the documents the path of the definition resolves on without failing
NextC3 ==
  \E doc \in {d \in DocumentsC3 :
                ~IsErr(_extract(d, PySplit(Key1(definition), ".")))} :
    match(doc)

SpecC3 == InitC3 /\ [][NextC3]_vars

\* the values reached by following path through v, distributing over every
\* sequence met on the way
RECURSIVE Reached(_, _)
Reached(v, path) ==
  IF v.t = "list" THEN UNION {Reached(v.l[i], path) : i \in 1..Len(v.l)}
  ELSE IF path = <<>> THEN {v}
  ELSE IF v.t = "dict" /\ Head(path) \in Keys(v)
  THEN Reached(Lookup(v, Head(path)), Tail(path))
  ELSE {}

\* C3: for every dotted path p with non-integer segments and every scalar c,
\* Query({p: c}).match(d) is true iff at least one value reached by following
\* p through d, distributing over every sequence at any nesting level,
\* equals c.
C3_FanOutIsExistential ==
  Called =>
    ((result = Returned(TRUE)) <=>
       \E x \in Reached(entry, Segments(definition)) :
         PyEq(x, Val1(definition)))

(***************************************************************************)
(* C4: the presence test                                                   *)
(***************************************************************************)
DefinitionsC4 ==
  {Field(k, Op("exists", PyBool(b))) : k \in {Ka, Kb}, b \in BOOLEAN}

InitC4 == InitOn(DefinitionsC4)

NextC4 == \E doc \in MappingDocuments : match(doc)

SpecC4 == InitC4 /\ [][NextC4]_vars

\* C4: for every mapping d, plain key k and boolean b,
\* Query({k: {"$exists": b}}).match(d) is true iff b equals (k is a direct key
\* of d), whatever value d holds under k.
C4_ExistsIsPresence ==
  Called =>
    result = Ok(PyBool(Truthy(Val1(Val1(definition)))
                         = (Key1(definition) \in Keys(entry))))

(***************************************************************************)
(* C5: the logical combinators                                             *)
(***************************************************************************)
SubConditionsC5 ==
  {PyInt(1), PyInt(2), Op("gt", PyInt(1)), Field(Ka, PyInt(1))}

DefinitionsC5 ==
  {Op(name, PyList(cs)) :
     name \in {"and", "or", "nor"}, cs \in SeqsUpTo(SubConditionsC5, MaxLen)}

DocumentsC5 == UpTo({PyNone, PyInt(1), PyInt(2), StrX}, {Ka}, MaxDocSize)

InitC5 == InitOn(DefinitionsC5)

\* the documents on which no sub-condition fails on its own
NextC5 ==
  \E doc \in {d \in DocumentsC5 :
                \A i \in 1..Len(Val1(definition).l) :
                  ~IsErr(_match(Val1(definition).l[i], d))} :
    match(doc)

SpecC5 == InitC5 /\ [][NextC5]_vars

\* Query(c).match(entry) is true
MatchesEntry(c) == _match(c, entry) = Returned(TRUE)

\* C5: for every document value d of any shape and every sequence cs of
\* sub-conditions, Query({"$and": cs}).match(d) is true iff Query(c).match(d)
\* is true for all c in cs; with "$or", for at least one c; with "$nor", for
\* none.
C5_CombinatorsSeeTheSameEntry ==
  Called =>
    LET cs == Val1(definition).l
        name == AttrName(Tail(Key1(definition)))
    IN  (result = Returned(TRUE)) <=>
          CASE name = "and" -> \A i \in 1..Len(cs) : MatchesEntry(cs[i])
            [] name = "or" -> \E i \in 1..Len(cs) : MatchesEntry(cs[i])
            [] OTHER -> \A i \in 1..Len(cs) : ~MatchesEntry(cs[i])

(***************************************************************************)
(* C6: $nin against $in                                                    *)
(***************************************************************************)
CandidatesC6 == {PyList(l) : l \in SeqsUpTo({PyInt(1), StrX}, MaxLen)}

DefinitionsC6 ==
  {Field(k, Op("nin", L)) : k \in {Ka, Kb}, L \in CandidatesC6}

\* mappings whose fields hold a scalar or a sequence of zero, one or several
\* scalars
DocumentsC6 ==
  {PyDict(<<>>)}
    \cup {Field(k, v) :
            k \in {Ka, Kb},
            v \in {PyNone, PyInt(1), PyInt(2), StrX}
                    \cup {PyList(l) :
                            l \in SeqsUpTo({PyInt(1), PyInt(2), StrX}, MaxLen)}}

InitC6 == InitOn(DefinitionsC6)

NextC6 == \E doc \in DocumentsC6 : match(doc)

SpecC6 == InitC6 /\ [][NextC6]_vars

\* C6: for every document d, field key k and candidate sequence L,
\* Query({k: {"$nin": L}}).match(d) is true iff Query({k: {"$in": L}}).match(d)
\* is false, also when the value of k in d is a sequence.
C6_NinNegatesIn ==
  Called =>
    ((result = Returned(TRUE)) <=>
       (_match(Field(Key1(definition), Op("in", Val1(Val1(definition)))),
               entry) = Returned(FALSE)))

(***************************************************************************)
(* C7: the error kind                                                      *)
(***************************************************************************)
ConditionsC7 ==
  {Op(name, arg) : name \in {"options", "text", "where"},
                   arg \in {PyInt(1), StrX}}

DefinitionsC7 == ConditionsC7 \cup {Field(Ka, c) : c \in ConditionsC7}

InitC7 == InitOn(DefinitionsC7)

NextC7 == \E doc \in Documents : match(doc)

SpecC7 == InitC7 /\ [][NextC7]_vars

\* C7: whenever a condition dispatches "$options", "$text" or "$where", match
\* fails for every entry value, and that failure, like every other failure
\* match propagates, is a QueryError.
C7_OneErrorKind ==
  /\ Dispatches => IsErr(result)
  /\ (Called /\ IsErr(result)) => IsQueryError(result)

(***************************************************************************)
(* C8: $elemMatch                                                          *)
(***************************************************************************)
ConditionsC8 ==
  {Field2(OpKey("gt"), PyInt(3), OpKey("lt"), PyInt(10)),
   Op("gt", PyInt(3)), Field(Kx, PyInt(1)),
   Field2(Kx, PyInt(1), Ky, PyInt(2)), PyDict(<<>>)}

ElementsC8 ==
  {PyInt(1), PyInt(5), PyInt(20), Field(Kx, PyInt(1)), Field(Ky, PyInt(2)),
   Field2(Kx, PyInt(1), Ky, PyInt(2))}

DefinitionsC8 == {Field(Ka, Op("elemMatch", m)) : m \in ConditionsC8}

InitC8 == InitOn(DefinitionsC8)

NextC8 ==
  \E s \in SeqsUpTo(ElementsC8, MaxLen) : match(Field(Ka, PyList(s)))

SpecC8 == InitC8 /\ [][NextC8]_vars

\* C8: for every sequence entry s and every mapping condition m, "$elemMatch"
\* is true iff some single element e of s satisfies every (key,
\* sub-condition) pair of m; it is false for the empty sequence.
C8_ElemMatchNeedsOneElement ==
  Called =>
    LET m == Val1(Val1(definition))
        s == Val1(entry).l
    IN  (result = Returned(TRUE)) <=>
          \E i \in 1..Len(s) :
            \A j \in 1..Len(m.d) :
              _process_condition(m.d[j][1], m.d[j][2], s[i]) = Returned(TRUE)

(***************************************************************************)
(* C9: a condition on an absent field                                      *)
(***************************************************************************)
ConditionsC9 ==
  {PyInt(1), StrX, PyBool(TRUE),
   Op("gt", PyInt(0)), Op("gte", PyInt(0)), Op("lt", PyInt(5)),
   Op("lte", PyInt(5)),
   Field(Kx, PyInt(1)), Field2(Kx, PyInt(1), Ky, StrX)}

DefinitionsC9 == {Field(k, c) : k \in {Ka, Kb}, c \in ConditionsC9}

\* mappings that hold neither "a" nor "b"
DocumentsC9 ==
  {d \in UpTo({PyNone, PyInt(1), StrX}, {Kx, Ky}, MaxDocSize) : d.t = "dict"}

InitC9 == InitOn(DefinitionsC9)

NextC9 == \E doc \in DocumentsC9 : match(doc)

SpecC9 == InitC9 /\ [][NextC9]_vars

\* C9: for every mapping d and plain key k that is not a key of d,
\* Query({k: c}).match(d) is false when c is a non-null scalar, a
\* "$gt"/"$gte"/"$lt"/"$lte" comparison, or a mapping from plain field names
\* to scalars.
C9_AbsentFieldNeverMatches ==
  (Called /\ Key1(definition) \notin Keys(entry)) => result = Returned(FALSE)
====
